---------------------------- MODULE Spec2Model ----------------------------
(***************************************************************************)
(* Collatz-seeded backoff: the schedule engine of collatz_backoff/core.py  *)
(* (BackoffConfig, CollatzBackoff), the list comprehensions its tests run  *)
(* over it, and the retry loop of demo_client.py.                          *)
(*                                                                         *)
(* Representation of Python values                                         *)
(*  - int: a TLA+ integer (Python ints are unbounded; every value the      *)
(*    model computes stays far below TLC's 2^31).                          *)
(*  - the float fields base_seconds and cap_seconds: the number of         *)
(*    half-microseconds they denote (0.05 s is 100000, 10.0 s is 20000000, *)
(*    0.5 us is 1), so that round(x * 1_000_000) is a real rounding        *)
(*    (half to even) of h / 2.  The values used are ones on which the      *)
(*    double arithmetic of the code is exact after rounding.               *)
(*  - an exception: the name of its class in the field err of a result.    *)
(***************************************************************************)
EXTENDS Integers, Sequences, FiniteSets, TLC

VARIABLES
    engine,     \* << >> when no CollatzBackoff exists, <<cfg>> for the engine's self.cfg
    cfgArg,     \* the BackoffConfig last passed to CollatzBackoff(cfg)
    raised,     \* "" or the message of the ValueError the last construction raised
    last,       \* the last schedule call on the engine and what it returned
    inflight,   \* per caller: the call it has started and not yet returned from
    memo,       \* per request: the first result any caller got for it
    dpc,        \* demo_client.main: "for", "sleep" or "done"
    dk,         \* its loop variable k
    dprobes,    \* http_probe calls made
    dslept,     \* time.sleep calls returned
    dwait,      \* the wait last computed, in half-microseconds (-1: none yet)
    dstatus,    \* main's return value (-1: not returned)
    dexc,       \* "" or the exception that left main
    dmax, dcfg, dhybrid, dnode,
                \* max_retries, cfg, hybrid_prob ("never", "maybe", "always"), node_id
    alone       \* the last call into the standalone module collatz_backoff.py

vars == <<engine, cfgArg, raised, last, inflight, memo,
          dpc, dk, dprobes, dslept, dwait, dstatus, dexc, dmax, dcfg, dhybrid, dnode,
          alone>>

engineVars == <<engine, cfgArg, raised, last>>
concVars == <<inflight, memo>>
demoVars == <<dpc, dk, dprobes, dslept, dwait, dstatus, dexc, dmax, dcfg, dhybrid, dnode>>

--------------------------------------------------------------------------
(* Bounds of the model *)

\* retry steps 0..MaxK are enumerated
MaxK == 12
\* negative retry steps -NegK..-1 are enumerated
NegK == 2
\* node ids -NegId..MaxId are enumerated
MaxId == 3
NegId == 2
\* the tests' id ranges [0, n) have n <= MaxN
MaxN == 33

\* concurrent callers of one engine
NCallers == 2
Callers == 1..NCallers
\* the demo's MAX_RETRIES values 0..MaxRetries are enumerated
MaxRetries == 3

\* sys.float_info.max_exp: 2.0 ** DBL_MAX_EXP is not a double
DBL_MAX_EXP == 1024

--------------------------------------------------------------------------
(* Integer helpers of the Python runtime *)

Min(x, y) == IF x <= y THEN x ELSE y

RECURSIVE Pow2(_)
Pow2(e) == IF e <= 0 THEN 1 ELSE 2 * Pow2(e - 1)

\* floor(log2(h)) for h >= 1
RECURSIVE Log2Floor(_)
Log2Floor(h) == IF h <= 1 THEN 0 ELSE 1 + Log2Floor(h \div 2)

\* math.gcd
RECURSIVE gcd(_, _)
gcd(x, y) == IF y = 0 THEN (IF x < 0 THEN -x ELSE x) ELSE gcd(y, x % y)

\* round(num / den) of Python 3: to nearest, ties to the even integer
RoundHalfEven(num, den) ==
    LET q == num \div den
        r == num % den
    IN  IF 2 * r < den THEN q
        ELSE IF 2 * r > den THEN q + 1
        ELSE IF q % 2 = 0 THEN q ELSE q + 1

IsPowerOfTwo(x) == x > 0 /\ \E e \in 0..30 : x = Pow2(e)

--------------------------------------------------------------------------
(* Collatz iterator: core.py collatz_step, collatz_iter *)

collatz_step_noshortcut(n) == IF n % 2 = 0 THEN n \div 2 ELSE 3 * n + 1
collatz_step(n) == IF n % 2 = 0 THEN n \div 2 ELSE (3 * n + 1) \div 2

\* n = seed; for _ in range(k): n = collatz_step(n)   (range(k) is empty for k <= 0)
RECURSIVE collatz_loop(_, _)
collatz_loop(n, left) == IF left <= 0 THEN n ELSE collatz_loop(collatz_step(n), left - 1)

collatz_iter(seed, k) == collatz_loop(seed, k)

--------------------------------------------------------------------------
(* BackoffConfig *)

Config(bs, sm, M, seed, cs) ==
    [base_seconds |-> bs, slot_ms |-> sm, slots_M |-> M, collatz_seed |-> seed,
     cap_seconds |-> cs]

\* BackoffConfig.validate: "" when it returns, else the ValueError's message
validate_nocap(c) ==
    IF c.base_seconds <= 0 THEN "base_seconds must be > 0"
    ELSE IF c.slot_ms <= 0 THEN "slot_ms must be > 0"
    ELSE IF c.slots_M <= 1 THEN "slots_M must be > 1"
    ELSE ""
validate(c) ==
    IF c.base_seconds <= 0 THEN "base_seconds must be > 0"
    ELSE IF c.slot_ms <= 0 THEN "slot_ms must be > 0"
    ELSE IF c.slots_M <= 1 THEN "slots_M must be > 1"
    ELSE IF c.cap_seconds <= 0 THEN "cap_seconds must be > 0"
    ELSE ""

--------------------------------------------------------------------------
(* Results of calls: err is "" for a returned value, else the exception *)

Ret(v) == [err |-> "", val |-> v]
Raise(e) == [err |-> e, val |-> << >>]

--------------------------------------------------------------------------
(* CollatzBackoff.affine_params *)

\* the multiplier before the invertibility check (lines 129-131)
RawA(M, n) ==
    LET a == (IF n % 2 = 0 THEN n + 1 ELSE n) % M
    IN  IF a = 0 THEN 1 ELSE a

\* whether line 138 (fallback a = 1) runs
FallsBack(M, n) == gcd(RawA(M, n), M) # 1

\* the iterate kept in a field shared by the callers inside the method
affine_params_shared(c, k) ==
    LET M == c.slots_M
        others == Cardinality({t \in Callers : inflight[t].pc = "running"}) - 1
        n == collatz_iter(c.collatz_seed, k + 1 + (IF others > 0 THEN others ELSE 0))
        a == RawA(M, n)
        b == (n \div 8) % M
    IN  <<IF gcd(a, M) # 1 THEN 1 ELSE a, b>>
affine_params_nogcd(c, k) ==
    LET M == c.slots_M
        n == collatz_iter(c.collatz_seed, k + 1)
    IN  <<(IF n % 2 = 0 THEN n + 1 ELSE n) % M, (n \div 8) % M>>
affine_params_even(c, k) ==
    LET M == c.slots_M
        n == collatz_iter(c.collatz_seed, k + 1)
    IN  <<n % M, (n \div 8) % M>>
affine_params(c, k) ==
    LET M == c.slots_M
        n == collatz_iter(c.collatz_seed, k + 1)
        a == RawA(M, n)
        b == (n \div 8) % M
    IN  <<IF gcd(a, M) # 1 THEN 1 ELSE a, b>>

--------------------------------------------------------------------------
(* CollatzBackoff.offset_slot *)

\* remainder truncated toward zero, as C's % computes it
offset_slot_truncmod(c, node_id, retry_k) ==
    LET M == c.slots_M
        ab == affine_params(c, retry_k)
        v == ab[1] * node_id + ab[2]
    IN  IF v >= 0 THEN v % M ELSE -((-v) % M)
offset_slot_nomod(c, node_id, retry_k) ==
    LET ab == affine_params(c, retry_k)
    IN  ab[1] * node_id + ab[2]
offset_slot(c, node_id, retry_k) ==
    LET M == c.slots_M
        ab == affine_params(c, retry_k)
    IN  (ab[1] * node_id + ab[2]) % M

--------------------------------------------------------------------------
(* CollatzBackoff.wait_micros, wait_seconds *)

\* cap_us = int(round(cfg.cap_seconds * 1_000_000))
cap_us(c) == RoundHalfEven(c.cap_seconds, 2)

\* Line 152 raises OverflowError when 2 ** retry_k cannot be converted to a
\* double (retry_k >= DBL_MAX_EXP) or when the product is the double inf
\* (base_seconds * 2^k * 10^6 >= 2^DBL_MAX_EXP) and round() is applied to it.
BaseOverflows(c, retry_k) ==
    \/ retry_k >= DBL_MAX_EXP
    \/ Log2Floor(c.base_seconds) + retry_k - 1 >= DBL_MAX_EXP

\* base_us exceeds 2^28: beyond every cap_us of the model, so that
\* min(cap_us, base_us + jitter_us) is cap_us (Python ints do not wrap)
BaseHuge(c, retry_k) == Log2Floor(c.base_seconds) + retry_k - 1 >= 28

\* base_us = int(round(cfg.base_seconds * (2 ** retry_k) * 1_000_000))
base_us(c, retry_k) ==
    IF retry_k >= 0 THEN RoundHalfEven(c.base_seconds * Pow2(retry_k), 2)
    ELSE RoundHalfEven(c.base_seconds, 2 * Pow2(-retry_k))

jitter_us(c, node_id, retry_k) == offset_slot(c, node_id, retry_k) * c.slot_ms * 1000

wait_micros(c, node_id, retry_k) ==
    IF BaseOverflows(c, retry_k) THEN Raise("OverflowError")
    ELSE IF BaseHuge(c, retry_k) THEN Ret(<<cap_us(c)>>)
    ELSE Ret(<<Min(cap_us(c), base_us(c, retry_k) + jitter_us(c, node_id, retry_k))>>)

\* wait_micros / 1_000_000.0, as <<whole seconds, microseconds>>
wait_seconds(c, node_id, retry_k) ==
    LET w == wait_micros(c, node_id, retry_k)
    IN  IF w.err # "" THEN w
        ELSE Ret(<<w.val[1] \div 1000000, w.val[1] % 1000000>>)

--------------------------------------------------------------------------
(* The list comprehensions of tests/bijection.py over ids = range(n) *)

\* offsets = [b.offset_slot(i, k) for i in ids]
offsets_list(c, k, n) == Ret([i \in 1..n |-> offset_slot(c, i - 1, k)])

\* waits = [b.wait_micros(i, k) for i in ids]
waits_list(c, k, n) ==
    IF n > 0 /\ BaseOverflows(c, k) THEN Raise("OverflowError")
    ELSE Ret([i \in 1..n |-> wait_micros(c, i - 1, k).val[1]])

--------------------------------------------------------------------------
(* Inputs *)

BaseSet == {0, 1, 100000}
SlotMsSet == {0, 1, 2}
MSet == {1, 2, 3, 4, 6, 8, 16, 32}
SeedSet == {-5, 0, 1, 27}
CapSet == {0, 5, 20000000}

Configs ==
    {Config(bs, sm, M, seed, cs) :
        bs \in BaseSet, sm \in SlotMsSet, M \in MSet, seed \in SeedSet, cs \in CapSet}

Ids == (-NegId)..MaxId
Ks == (-NegK)..MaxK
\* retry steps around the largest double
KBig == {DBL_MAX_EXP - 16, DBL_MAX_EXP - 15, DBL_MAX_EXP}
\* participant counts tried for a modulus M
Ns(M) == {n \in 0..MaxN : n <= 3 \/ n \in {M - 1, M, M + 1, 2 * M}}

NoCall == [op |-> "", id |-> 0, k |-> 0, n |-> 0, err |-> "", val |-> << >>]
Call(op, id, k, n, r) ==
    [op |-> op, id |-> id, k |-> k, n |-> n, err |-> r.err, val |-> r.val]

--------------------------------------------------------------------------
(* The engine: construction and schedule calls, one caller.  last holds     *)
(* the result of the caller's current call until the caller is done with   *)
(* it; the calls themselves read nothing but the engine's cfg.             *)

InitEngine ==
    /\ engine = << >>
    /\ cfgArg = << >>
    /\ raised = ""
    /\ last = NoCall

\* b = CollatzBackoff(cfg): cfg.validate(); self.cfg = cfg
Construct(c) ==
    /\ engine = << >>
    /\ cfgArg = << >>
    /\ cfgArg' = <<c>>
    /\ raised' = validate(c)
    /\ engine' = IF validate(c) = "" THEN <<c>> ELSE << >>
    /\ last' = NoCall
    /\ UNCHANGED <<concVars, demoVars, alone>>

AffineParams(k) ==
    /\ engine # << >>
    /\ last = NoCall
    /\ last' = Call("affine_params", 0, k, 0, Ret(affine_params(engine[1], k)))
    /\ UNCHANGED <<engine, cfgArg, raised, concVars, demoVars, alone>>

OffsetSlot(id, k) ==
    /\ engine # << >>
    /\ last = NoCall
    /\ last' = Call("offset_slot", id, k, 0, Ret(<<offset_slot(engine[1], id, k)>>))
    /\ UNCHANGED <<engine, cfgArg, raised, concVars, demoVars, alone>>

WaitMicros(id, k) ==
    /\ engine # << >>
    /\ last = NoCall
    /\ last' = Call("wait_micros", id, k, 0, wait_micros(engine[1], id, k))
    /\ UNCHANGED <<engine, cfgArg, raised, concVars, demoVars, alone>>

WaitSeconds(id, k) ==
    /\ engine # << >>
    /\ last = NoCall
    /\ last' = Call("wait_seconds", id, k, 0, wait_seconds(engine[1], id, k))
    /\ UNCHANGED <<engine, cfgArg, raised, concVars, demoVars, alone>>

Offsets(k, n) ==
    /\ engine # << >>
    /\ last = NoCall
    /\ n \in Ns(engine[1].slots_M)
    /\ last' = Call("offsets", 0, k, n, offsets_list(engine[1], k, n))
    /\ UNCHANGED <<engine, cfgArg, raised, concVars, demoVars, alone>>

Waits(k, n) ==
    /\ engine # << >>
    /\ last = NoCall
    /\ n \in Ns(engine[1].slots_M)
    /\ last' = Call("waits", 0, k, n, waits_list(engine[1], k, n))
    /\ UNCHANGED <<engine, cfgArg, raised, concVars, demoVars, alone>>

\* the caller is done with the result of its call
Discard ==
    /\ last # NoCall
    /\ last' = NoCall
    /\ UNCHANGED <<engine, cfgArg, raised, concVars, demoVars, alone>>

NextEngine ==
    \/ \E c \in Configs : Construct(c)
    \/ \E k \in Ks : AffineParams(k)
    \/ \E id \in Ids, k \in Ks : OffsetSlot(id, k)
    \/ \E id \in Ids, k \in Ks \cup KBig : WaitMicros(id, k)
    \/ \E id \in Ids, k \in Ks \cup KBig : WaitSeconds(id, k)
    \/ \E k \in 0..MaxK, n \in 0..MaxN : Offsets(k, n)
    \/ \E k \in 0..MaxK, n \in 0..MaxN : Waits(k, n)
    \/ Discard

--------------------------------------------------------------------------
(* Several callers on one engine.  A call is split at its start and its    *)
(* return, so that other callers' calls run in between.                    *)

ConcConfigs == {Config(100000, 1, 8, 27, 20000000), Config(1, 2, 6, -5, 5)}
ConcIds == {0, 1}
ConcKs == {0, 1}
ConcOps == {"affine_params", "offset_slot", "wait_micros", "wait_seconds"}

Idle == [pc |-> "idle", op |-> "", id |-> 0, k |-> 0, err |-> "", val |-> << >>]

\* what the method op returns on the engine's cfg
Dispatch(c, op, id, k) ==
    CASE op = "affine_params" -> Ret(affine_params(c, k))
      [] op = "offset_slot" -> Ret(<<offset_slot(c, id, k)>>)
      [] op = "wait_micros" -> wait_micros(c, id, k)
      [] op = "wait_seconds" -> wait_seconds(c, id, k)

Request(r) == [op |-> r.op, id |-> r.id, k |-> r.k]
Result(r) == [err |-> r.err, val |-> r.val]

ConcIdle ==
    /\ inflight = [t \in Callers |-> Idle]
    /\ memo = << >>

InitConc ==
    /\ \E c \in ConcConfigs : engine = <<c>> /\ cfgArg = <<c>>
    /\ raised = ""
    /\ last = NoCall
    /\ ConcIdle

\* caller t enters the method
Invoke(t, op, id, k) ==
    /\ inflight[t].pc = "idle"
    /\ op = "affine_params" => id = 0
    /\ inflight' = [inflight EXCEPT ![t] =
            [pc |-> "running", op |-> op, id |-> id, k |-> k, err |-> "", val |-> << >>]]
    /\ UNCHANGED <<engineVars, memo, demoVars, alone>>

\* the method returns to caller t
Return(t) ==
    /\ inflight[t].pc = "running"
    /\ LET r == Dispatch(engine[1], inflight[t].op, inflight[t].id, inflight[t].k)
       IN  inflight' = [inflight EXCEPT ![t].pc = "returned", ![t].err = r.err,
                                        ![t].val = r.val]
    /\ UNCHANGED <<engineVars, memo, demoVars, alone>>

\* caller t takes the result; the first result taken is remembered
Take(t) ==
    /\ inflight[t].pc = "returned"
    /\ inflight' = [inflight EXCEPT ![t] = Idle]
    /\ memo' = IF memo = << >> THEN <<inflight[t]>> ELSE memo
    /\ UNCHANGED <<engineVars, demoVars, alone>>

\* caller t takes the result and nothing is remembered
Drop(t) ==
    /\ inflight[t].pc = "returned"
    /\ inflight' = [inflight EXCEPT ![t] = Idle]
    /\ UNCHANGED <<engineVars, memo, demoVars, alone>>

NextConc ==
    \/ \E t \in Callers, op \in ConcOps, id \in ConcIds, k \in ConcKs : Invoke(t, op, id, k)
    \/ \E t \in Callers : Return(t)
    \/ \E t \in Callers : Take(t)
    \/ \E t \in Callers : Drop(t)

--------------------------------------------------------------------------
(* demo_client.main: the retry loop.  Waits are in half-microseconds.  The *)
(* actions end where main blocks: in http_probe and in time.sleep.         *)

DemoConfigs == {Config(100000, 1, 4, 27, 20000000), Config(1, 2, 6, -5, 5)}
\* MAX_RETRIES: small values, a negative one, and one past the largest double's exponent
DemoMax == (-1..MaxRetries) \cup {DBL_MAX_EXP + 1}
DemoNodes == {0, 5}
DemoHybrid == {"never", "maybe", "always"}

DemoIdle ==
    /\ dpc = "done" /\ dk = 0 /\ dprobes = 0 /\ dslept = 0 /\ dwait = -1
    /\ dstatus = -1 /\ dexc = "" /\ dmax = 0 /\ dhybrid = "never" /\ dnode = 0
    /\ dcfg = Config(100000, 1, 4, 27, 20000000)

\* lines 33-53: the state when the for loop is entered (backoff = CollatzBackoff(cfg)
\* at line 51 has returned, so cfg is valid)
InitDemo ==
    /\ dpc = "for" /\ dk = 0 /\ dprobes = 0 /\ dslept = 0 /\ dwait = -1
    /\ dstatus = -1 /\ dexc = ""
    /\ dmax \in DemoMax
    /\ dcfg \in {c \in DemoConfigs : validate(c) = ""}
    /\ dhybrid \in DemoHybrid
    /\ dnode \in DemoNodes

\* collatz_seeded_backoff_seconds(node_id, k, cfg), line 68
collatz_seeded_backoff_seconds(node_id, retry_k, c) ==
    IF validate(c) # "" THEN Raise("ValueError")
    ELSE LET w == wait_seconds(c, node_id, retry_k)
         IN  IF w.err # "" THEN w
             ELSE Ret(<<2 * (w.val[1] * 1000000 + w.val[2])>>)

\* lines 63-66: base = cfg.base_seconds * (2 ** k) raises when 2 ** k is no double;
\* min(cap_seconds, base + jitter) with base = inf is cap_seconds
hybrid_wait(c, k, offset) ==
    IF k >= DBL_MAX_EXP THEN Raise("OverflowError")
    ELSE IF Log2Floor(c.base_seconds) + k >= 28 THEN Ret(<<c.cap_seconds>>)
    ELSE Ret(<<Min(c.cap_seconds,
                   c.base_seconds * Pow2(k) + offset * c.slot_ms * 2000)>>)

\* lines 71-75: the f-string evaluates cfg.base_seconds*(2**k)
print_retry(c, k) == IF k >= DBL_MAX_EXP THEN Raise("OverflowError") ELSE Ret(<< >>)

\* for k in range(max_retries): the loop has another iteration
MoreRetries == dk < dmax

\* lines 55-60: the probe succeeds and main returns 0
ProbeOk ==
    /\ dpc = "for" /\ MoreRetries
    /\ dprobes' = dprobes + 1
    /\ dstatus' = 0
    /\ dpc' = "done"
    /\ UNCHANGED <<engineVars, concVars, alone, dk, dslept, dwait, dexc, dmax, dcfg, dhybrid, dnode>>

\* what follows a failed probe, with the wait w computed at lines 62-68
AfterWait(w) ==
    LET p == IF w.err # "" THEN w ELSE print_retry(dcfg, dk)
    IN  /\ dprobes' = dprobes + 1
        /\ IF p.err # ""
           THEN /\ dexc' = p.err
                /\ dpc' = "done"
                /\ UNCHANGED dwait
           ELSE /\ dwait' = w.val[1]
                /\ dpc' = "sleep"
                /\ UNCHANGED dexc
        /\ UNCHANGED <<engineVars, concVars, alone, dk, dslept, dstatus, dmax, dcfg, dhybrid, dnode>>

\* lines 55-77: the probe fails, the else branch of line 62 computes the wait
ProbeFailCollatz ==
    /\ dpc = "for" /\ MoreRetries
    /\ dhybrid # "always"
    /\ AfterWait(collatz_seeded_backoff_seconds(dnode, dk, dcfg))

\* lines 55-77: the probe fails, rng.random() < hybrid_prob, a random slot is drawn
ProbeFailHybrid(offset) ==
    /\ dpc = "for" /\ MoreRetries
    /\ dhybrid # "never"
    /\ offset \in 0..(dcfg.slots_M - 1)
    /\ AfterWait(hybrid_wait(dcfg, dk, offset))

\* line 77: time.sleep(wait) returns; the for statement advances k
Sleep ==
    /\ dpc = "sleep"
    /\ dslept' = dslept + 1
    /\ dk' = dk + 1
    /\ dpc' = "for"
    /\ UNCHANGED <<engineVars, concVars, alone, dprobes, dwait, dstatus, dexc, dmax, dcfg, dhybrid, dnode>>

\* lines 79-80: range(max_retries) is exhausted, main returns 2
Exhausted ==
    /\ dpc = "for" /\ ~MoreRetries
    /\ dstatus' = 2
    /\ dpc' = "done"
    /\ UNCHANGED <<engineVars, concVars, alone, dk, dprobes, dslept, dwait, dexc, dmax, dcfg, dhybrid, dnode>>

NextDemo ==
    \/ ProbeOk
    \/ ProbeFailCollatz
    \/ \E offset \in 0..7 : ProbeFailHybrid(offset)
    \/ Sleep
    \/ Exhausted

--------------------------------------------------------------------------
(* The standalone module collatz_backoff.py: affine_params_from_collatz    *)
(* and collatz_perm_offset, called with M and seed as arguments.  Its      *)
(* collatz_step and collatz_iter are the same text as core.py's.           *)

\* affine_params_from_collatz(k, seed, M): no gcd check follows a == 0
affine_params_from_collatz(k, seed, M) ==
    LET n == collatz_iter(seed, k + 1)
        a == (IF n % 2 = 0 THEN n + 1 ELSE n) % M
        b == (n \div 8) % M
    IN  <<IF a = 0 THEN 1 ELSE a, b>>

\* collatz_perm_offset(node_id, k, M=M, seed=seed)
collatz_perm_offset(node_id, k, M, seed) ==
    LET ab == affine_params_from_collatz(k, seed, M)
    IN  (ab[1] * node_id + ab[2]) % M

\* moduli passed as M, powers of two and others
AloneMs == {2, 3, 4, 6, 8, 9, 12, 16}

NoAlone == [op |-> "", M |-> 0, seed |-> 0, k |-> 0, id1 |-> 0, id2 |-> 0, val |-> << >>]

AloneIdle == alone = NoAlone

\* a, b = affine_params_from_collatz(k, seed=seed, M=M)
AloneParams(k, seed, M) ==
    /\ alone = NoAlone
    /\ alone' = [op |-> "affine_params_from_collatz", M |-> M, seed |-> seed, k |-> k,
                 id1 |-> 0, id2 |-> 0, val |-> affine_params_from_collatz(k, seed, M)]
    /\ UNCHANGED <<engineVars, concVars, demoVars>>

\* the offsets of two node ids at the same step
AloneOffsets(id1, id2, k, seed, M) ==
    /\ alone = NoAlone
    /\ alone' = [op |-> "collatz_perm_offset", M |-> M, seed |-> seed, k |-> k,
                 id1 |-> id1, id2 |-> id2,
                 val |-> <<collatz_perm_offset(id1, k, M, seed),
                           collatz_perm_offset(id2, k, M, seed)>>]
    /\ UNCHANGED <<engineVars, concVars, demoVars>>

\* the caller is done with the result
AloneDiscard ==
    /\ alone # NoAlone
    /\ alone' = NoAlone
    /\ UNCHANGED <<engineVars, concVars, demoVars>>

NextAlone ==
    \/ \E k \in Ks, seed \in SeedSet, M \in AloneMs : AloneParams(k, seed, M)
    \/ \E id1 \in Ids, id2 \in Ids, k \in Ks, seed \in SeedSet, M \in AloneMs :
            AloneOffsets(id1, id2, k, seed, M)
    \/ AloneDiscard

--------------------------------------------------------------------------
(* Specifications *)

Init == InitEngine /\ ConcIdle /\ DemoIdle /\ AloneIdle
Next == NextEngine
Spec == Init /\ [][Next]_vars

InitC == InitConc /\ DemoIdle /\ AloneIdle
SpecConc == InitC /\ [][NextConc]_vars

\* main runs to its end: probe and sleep return, so each step of the loop is taken
FairDemo == WF_vars(NextDemo)
SpecAlone == Init /\ [][NextAlone]_vars

InitD == InitEngine /\ ConcIdle /\ InitDemo /\ AloneIdle
SpecDemo == InitD /\ [][NextDemo]_vars /\ FairDemo

--------------------------------------------------------------------------
(* Claims *)

TheCfg == engine[1]
Distinct(seq) == \A i, j \in 1..Len(seq) : i # j => seq[i] # seq[j]
Elems(seq) == {seq[i] : i \in 1..Len(seq)}
SingleOps == {"affine_params", "offset_slot", "wait_micros", "wait_seconds"}

\* C1: for a power-of-two slots_M, a seed >= 1 and a retry step k >= 0, the
\* offsets of the ids [0, n) with n <= slots_M are pairwise distinct, and
\* with n = slots_M they are a permutation of [0, slots_M).
C1_OffsetsInjective ==
    (/\ last.op = "offsets"
     /\ IsPowerOfTwo(TheCfg.slots_M)
     /\ TheCfg.collatz_seed >= 1
     /\ last.k >= 0
     /\ last.n <= TheCfg.slots_M)
    => /\ last.err = ""
       /\ Len(last.val) = last.n
       /\ Distinct(last.val)
       /\ last.n = TheCfg.slots_M => Elems(last.val) = 0..(TheCfg.slots_M - 1)

C1_Witness ==
    /\ last.op = "offsets"
    /\ TheCfg.slots_M = 8 /\ TheCfg.collatz_seed = 27
    /\ last.k = 3 /\ last.n = 8
    /\ Elems(last.val) = 0..7
    /\ last.val # <<0, 1, 2, 3, 4, 5, 6, 7>>

\* C2: with base_seconds 0.05, slot_ms 1, cap_seconds 10.0, a power-of-two
\* slots_M >= 32 and a seed in [1, 10000], the wait_micros values of the ids
\* [0, n), n <= slots_M, are pairwise distinct at every retry step k in [0, 12).
C2_WaitsInjective ==
    (/\ last.op = "waits"
     /\ TheCfg.base_seconds = 100000 /\ TheCfg.slot_ms = 1
     /\ TheCfg.cap_seconds = 20000000
     /\ IsPowerOfTwo(TheCfg.slots_M) /\ TheCfg.slots_M >= 32
     /\ TheCfg.collatz_seed \in 1..10000
     /\ last.k \in 0..11
     /\ last.n <= TheCfg.slots_M)
    => /\ last.err = ""
       /\ Distinct(last.val)

\* C3: for every valid config (any slots_M > 1, any integer seed) and k >= 0,
\* affine_params(k) = (a, b) has 1 <= a < slots_M, 0 <= b < slots_M and
\* gcd(a, slots_M) = 1, and x -> (a*x + b) mod slots_M is a bijection on
\* [0, slots_M).
C3_ParamsInvertible ==
    (last.op = "affine_params" /\ last.k >= 0)
    => LET M == TheCfg.slots_M
           a == last.val[1]
           b == last.val[2]
       IN  /\ last.err = ""
           /\ 1 <= a /\ a < M
           /\ 0 <= b /\ b < M
           /\ \A d \in 2..M : ~(a % d = 0 /\ M % d = 0)
           /\ {(a * x + b) % M : x \in 0..(M - 1)} = 0..(M - 1)

\* the fallback a = 1 ran for a modulus that is no power of two and a negative seed
C3_Witness ==
    /\ last.op = "affine_params" /\ last.k >= 0
    /\ TheCfg.slots_M = 6 /\ TheCfg.collatz_seed < 0
    /\ FallsBack(6, collatz_iter(TheCfg.collatz_seed, last.k + 1))
    /\ last.val[1] = 1

\* C4: for every valid config and non-negative id and k, wait_micros(id, k)
\* is a non-negative integer, at most cap_us = round(cap_seconds * 10^6), and
\* equals min(cap_us, base_us + offset_slot(id, k) * slot_ms * 1000).
C4_WaitWithinCap ==
    (last.op = "wait_micros" /\ last.id >= 0 /\ last.k >= 0)
    => /\ last.err = ""
       /\ 0 <= last.val[1]
       /\ last.val[1] <= RoundHalfEven(TheCfg.cap_seconds, 2)
       /\ last.k <= MaxK =>
            last.val[1] =
                Min(RoundHalfEven(TheCfg.cap_seconds, 2),
                    RoundHalfEven(TheCfg.base_seconds * Pow2(last.k), 2)
                    + offset_slot(TheCfg, last.id, last.k) * TheCfg.slot_ms * 1000)

\* C5 (as stated): a negative id or a negative retry step k passed to a
\* schedule function is rejected with an InvalidArgument error condition.
C5_NegativeRejected ==
    (last.op \in SingleOps /\ (last.id < 0 \/ last.k < 0))
    => last.err = "InvalidArgument"

\* the parameters derived from an iterate n: low bit forced, reduced mod M,
\* 1 in place of a value that is 0 or shares a factor with M; b from n / 8
RefParams(M, n) ==
    LET odd == 2 * (n \div 2) + 1
        r == odd % M
        ok == r # 0 /\ \A d \in 2..M : ~(r % d = 0 /\ M % d = 0)
    IN  <<IF ok THEN r ELSE 1, (n \div 8) % M>>

\* C5 (amended): a negative id or k is not rejected; the call returns an
\* ordinary value.  affine_params(k) for k < 0 is derived from the seed
\* itself (no iteration), offset_slot is (a*id + b) mod slots_M, a value in
\* [0, slots_M), and wait_micros is a value in [0, cap_us].
C5_NegativeReturnsValue ==
    (last.op \in SingleOps /\ (last.id < 0 \/ last.k < 0))
    => LET M == TheCfg.slots_M
           ab == IF last.k < 0 THEN RefParams(M, TheCfg.collatz_seed)
                 ELSE RefParams(M, collatz_iter(TheCfg.collatz_seed, last.k + 1))
       IN  /\ last.err # "InvalidArgument"
           /\ last.op = "affine_params" => (last.err = "" /\ last.val = ab)
           /\ last.op = "offset_slot" =>
                /\ last.err = ""
                /\ last.val[1] \in 0..(M - 1)
                /\ (last.val[1] - (ab[1] * last.id + ab[2])) % M = 0
           /\ (last.op = "wait_micros" /\ last.k < DBL_MAX_EXP - 16) =>
                /\ last.err = ""
                /\ 0 <= last.val[1] /\ last.val[1] <= RoundHalfEven(TheCfg.cap_seconds, 2)
           /\ (last.op = "wait_seconds" /\ last.k < DBL_MAX_EXP - 16) =>
                /\ last.err = ""
                /\ 0 <= last.val[1] /\ 0 <= last.val[2]

\* offset_slot returned for a negative id at a negative step, with a multiplier other than 1
C5_Witness ==
    /\ last.op = "offset_slot" /\ last.id < 0 /\ last.k < 0
    /\ last.err = ""
    /\ TheCfg.slots_M = 32 /\ TheCfg.collatz_seed = 27
    /\ last.val[1] = (27 * last.id + 3) % 32

\* C6: CollatzBackoff(cfg) fails, and yields no engine, exactly when
\* base_seconds <= 0, slot_ms <= 0, slots_M <= 1 or cap_seconds <= 0; every
\* engine that exists wraps a config within all four bounds, and every
\* schedule call ran on such an engine.
BoundsHold(c) ==
    c.base_seconds > 0 /\ c.slot_ms > 0 /\ c.slots_M > 1 /\ c.cap_seconds > 0

C6_ConstructionValidates ==
    /\ cfgArg # << >> =>
         /\ raised # "" <=> ~BoundsHold(cfgArg[1])
         /\ engine = (IF BoundsHold(cfgArg[1]) THEN cfgArg ELSE << >>)
    /\ engine # << >> => BoundsHold(engine[1])
    /\ last # NoCall => (engine # << >> /\ BoundsHold(engine[1]))

\* a construction whose only violated bound is cap_seconds failed
C6_Witness ==
    /\ cfgArg # << >>
    /\ cfgArg[1].cap_seconds <= 0
    /\ cfgArg[1].base_seconds > 0 /\ cfgArg[1].slot_ms > 0 /\ cfgArg[1].slots_M > 1
    /\ raised = "cap_seconds must be > 0"
    /\ engine = << >>

\* C7: for every valid config and k >= 0, the offsets of the ids [0, n) with
\* n > slots_M contain a duplicate, and they are returned as ordinary values
\* in [0, slots_M), not as an error.
C7_PigeonholeDuplicate ==
    (last.op = "offsets" /\ last.k >= 0 /\ last.n > TheCfg.slots_M)
    => /\ last.err = ""
       /\ Len(last.val) = last.n
       /\ \A i \in 1..last.n : last.val[i] \in 0..(TheCfg.slots_M - 1)
       /\ ~Distinct(last.val)

\* the documented case: slots_M = 16, seed 27, 32 ids, k = 3
C7_Witness ==
    /\ last.op = "offsets"
    /\ TheCfg.slots_M = 16 /\ TheCfg.collatz_seed = 27
    /\ last.n = 32 /\ last.k = 3
    /\ ~Distinct(last.val)

RefStep(n) ==
    LET m == IF n < 0 THEN -n ELSE n
        halves == (-2 * m - 1)..(2 * m + 1)
    IN  IF n % 2 = 0 THEN CHOOSE h \in halves : 2 * h = n
        ELSE CHOOSE h \in halves : 2 * h = 3 * n + 1
RECURSIVE RefIter(_, _)
RefIter(seed, j) == IF j = 0 THEN seed ELSE RefStep(RefIter(seed, j - 1))

\* C9: affine_params(k) is the reference derivation on the seed iterated
\* k + 1 times (seed 27 gives 41 at k = 0); for a power-of-two modulus the
\* replacement by 1 is never taken and a is odd.
C9_ParamsMatchReference ==
    (last.op = "affine_params" /\ last.k >= 0)
    => LET M == TheCfg.slots_M
           n == RefIter(TheCfg.collatz_seed, last.k + 1)
       IN  /\ last.val = RefParams(M, n)
           /\ (TheCfg.collatz_seed = 27 /\ last.k = 0) =>
                (n = 41 /\ last.val = <<41 % M, 5 % M>>)
           /\ IsPowerOfTwo(M) =>
                /\ last.val[1] % 2 = 1
                /\ last.val[1] = (2 * (n \div 2) + 1) % M
                /\ ~FallsBack(M, collatz_iter(TheCfg.collatz_seed, last.k + 1))

\* seed 27 at k = 0 with a power-of-two modulus larger than 41 is out of MSet;
\* with slots_M = 32: n = 41, a = 41 mod 32 = 9, b = 5
C9_Witness ==
    /\ last.op = "affine_params" /\ last.k = 0
    /\ TheCfg.collatz_seed = 27 /\ TheCfg.slots_M = 32
    /\ last.val = <<9, 5>>

\* C10: the demo loop probes with k = 0, 1, 2, ... in order, at most
\* max_retries times; it returns 0 at the first successful probe without
\* sleeping again, sleeps the wait computed for k after each failed probe,
\* returns 2 once max_retries probes have failed, and ends in one of these
\* two outcomes.
C10_LoopOutcome ==
    LET limit == IF dmax > 0 THEN dmax ELSE 0
    IN  /\ dprobes <= limit
        /\ dpc = "for" => (dprobes = dk /\ dslept = dk)
        /\ dpc = "sleep" =>
             /\ dprobes = dk + 1 /\ dslept = dk
             /\ dhybrid = "never" =>
                  dwait = 2 * wait_micros(dcfg, dnode, dk).val[1]
        /\ dpc = "done" =>
             /\ dexc = ""
             /\ dstatus \in {0, 2}
             /\ dstatus = 0 => (dprobes = dk + 1 /\ dslept = dk)
             /\ dstatus = 2 => (dprobes = limit /\ dslept = limit /\ dk = limit)

\* C11: in the standalone module, affine_params_from_collatz(k, seed, M)
\* returns a multiplier invertible mod M, and for every M > 1, seed and
\* k >= 0 two node ids that differ modulo M never get the same offset slot
\* from collatz_perm_offset.
C11_AloneInjective ==
    /\ (alone.op = "affine_params_from_collatz" /\ alone.M > 1 /\ alone.k >= 0)
       => \A d \in 2..alone.M : ~(alone.val[1] % d = 0 /\ alone.M % d = 0)
    /\ (/\ alone.op = "collatz_perm_offset" /\ alone.M > 1 /\ alone.k >= 0
        /\ (alone.id1 - alone.id2) % alone.M # 0)
       => alone.val[1] # alone.val[2]

==========================================================================
